---- MODULE Spec2Model ----
(***************************************************************************)
(* UART pad binding of the SERCOM peripheral.                              *)
(*                                                                         *)
(* Two builders live in the repository:                                    *)
(*   - hal/src/sercom/uart/pads_thumbv7em.rs: Pads<S, I, P, RTS, CTS>,     *)
(*     whose data pads are one of Empty / RxSimplex / TxSimplex /          *)
(*     HalfDuplex / FullDuplex, with the RxpoTxpo and ValidPads traits;    *)
(*   - hal/src/sercom/uart/pads2.rs: Pads<S, P0, P1, P2, P3, PadRoles>,    *)
(*     which stores the pins by physical pad slot and the roles by pad     *)
(*     number.                                                             *)
(*                                                                         *)
(* Both are type-state builders: an operation the type system refuses is   *)
(* modelled as a call whose outcome is an error and whose builder value is *)
(* left as it was.  A trait that is not implemented for a type is an       *)
(* operator that answers FALSE ("...Defined").                             *)
(***************************************************************************)
EXTENDS Integers, FiniteSets, Sequences, TLC

\* ------------------------------------------------------------------ bounds

\* Every pad slot has one catalog pin of the builder's SERCOM and IoSet; the
\* slots 0 .. SecondPinSlots - 1 have a second one.
SecondPinSlots == 3

\* ------------------------------------------------------------------ catalog

\* typelevel::NoneT, as a pad number.
NoneT == 0 - 1

Pad0 == 0
Pad1 == 1
Pad2 == 2
Pad3 == 3

PadNums == {Pad0, Pad1, Pad2, Pad3}

\* NoneT as a pin: the pad field of a builder that holds no pin.
NoPin == [pad |-> NoneT, inset |-> FALSE, n |-> 0]

\* The pins a caller can hand to a bind operation: the pins of the builder's
\* SERCOM and IoSet, one pin of the SERCOM (on pad 2) that belongs to another
\* IoSet, and one pin that has no pad on the SERCOM.
Pins ==
    {[pad |-> s, inset |-> TRUE, n |-> 1] : s \in PadNums}
        \cup {[pad |-> s, inset |-> TRUE, n |-> 2] : s \in {t \in PadNums : t < SecondPinSlots}}
        \cup {[pad |-> Pad2, inset |-> FALSE, n |-> 1]}
        \cup {[pad |-> NoneT, inset |-> FALSE, n |-> 1]}

\* Id: GetPad<S>: the pin has a pad on the SERCOM.
GetPadDefined(pin) == pin.pad # NoneT

\* <Id as GetPad<S>>::PadNum; NoneT::PadNum = NoneT for an absent optional pad.
PadNum(pin) == pin.pad

\* Pad<S, Id>: InIoSet<I>.
InIoSet(pin) == pin.inset

\* ------------------------------------------------------------------ results

Ok == "ok"
RoleAlreadyBound == "RoleAlreadyBound"
IncompatiblePin == "IncompatiblePin"
SlotConflict == "SlotConflict"
NoDataRole == "NoDataRole"
IllegalRoutingCombination == "IllegalRoutingCombination"

CapRx == "Rx"
CapTx == "Tx"
CapDuplex == "Duplex"
NoCap == "none"

\* ------------------------------------------------- pads_thumbv7em.rs: types

Empty == "Empty"
RxSimplex == "RxSimplex"
TxSimplex == "TxSimplex"
HalfDuplex == "HalfDuplex"
FullDuplex == "FullDuplex"

\* The io_pads field: the shape and the pins it holds.
IoEmpty == [shape |-> Empty, receive |-> NoPin, transmit |-> NoPin, io |-> NoPin]
IoRxSimplex(rx) == [shape |-> RxSimplex, receive |-> rx, transmit |-> NoPin, io |-> NoPin]
IoTxSimplex(tx) == [shape |-> TxSimplex, receive |-> NoPin, transmit |-> tx, io |-> NoPin]
IoHalfDuplex(p) == [shape |-> HalfDuplex, receive |-> NoPin, transmit |-> NoPin, io |-> p]
IoFullDuplex(rx, tx) == [shape |-> FullDuplex, receive |-> rx, transmit |-> tx, io |-> NoPin]

\* IoPads::RX
IoRX(io) ==
    CASE io.shape = RxSimplex -> io.receive
      [] io.shape = HalfDuplex -> io.io
      [] io.shape = FullDuplex -> io.receive
      [] OTHER -> NoPin

\* IoPads::TX
IoTX(io) ==
    CASE io.shape = TxSimplex -> io.transmit
      [] io.shape = HalfDuplex -> io.io
      [] io.shape = FullDuplex -> io.transmit
      [] OTHER -> NoPin

\* Pads::default()
PadsDefault == [io_pads |-> IoEmpty, ready_to_send |-> NoPin, clear_to_send |-> NoPin]

\* The pins a pad set holds.
HeldPins(p) ==
    {p.io_pads.receive, p.io_pads.transmit, p.io_pads.io,
     p.ready_to_send, p.clear_to_send} \ {NoPin}

\* ------------------------------------------- pads_thumbv7em.rs: RXPO / TXPO

\* Rxpo that loses pad 3.
RxpoMutPad3(padnum) ==
    CASE padnum = NoneT -> 0
      [] padnum = Pad0 -> 0
      [] padnum = Pad1 -> 1
      [] padnum = Pad2 -> 2
      [] padnum = Pad3 -> 0
\* Rxpo with the pad numbers shifted by one.
RxpoMut(padnum) ==
    CASE padnum = NoneT -> 0
      [] padnum = Pad0 -> 0
      [] padnum = Pad1 -> 0
      [] padnum = Pad2 -> 1
      [] padnum = Pad3 -> 2
\* <PadNum as Rxpo>::RXPO
Rxpo(padnum) ==
    CASE padnum = NoneT -> 0
      [] padnum = Pad0 -> 0
      [] padnum = Pad1 -> 1
      [] padnum = Pad2 -> 2
      [] padnum = Pad3 -> 3

\* OptionalPad0 that also admits Pad2.
OptionalPad0Mut(padnum) == padnum \in {NoneT, Pad0, Pad2}
\* OptionalPad0: NoneT and Pad0.
OptionalPad0(padnum) == padnum \in {NoneT, Pad0}

\* Txpo implemented for a TX on any pad.
TxpoDefinedMut(tx, rts, cts) ==
    <<rts, cts>> \in {<<NoneT, NoneT>>, <<Pad2, Pad3>>, <<Pad2, NoneT>>}
\* (TX, RTS, CTS): Txpo
TxpoDefined(tx, rts, cts) ==
    /\ OptionalPad0(tx)
    /\ <<rts, cts>> \in {<<NoneT, NoneT>>, <<Pad2, Pad3>>, <<Pad2, NoneT>>}

\* Txpo whose RTS-only code leaves the two-bit range.
TxpoMutFour(tx, rts, cts) ==
    CASE <<rts, cts>> = <<NoneT, NoneT>> -> 0
      [] <<rts, cts>> = <<Pad2, Pad3>> -> 2
      [] <<rts, cts>> = <<Pad2, NoneT>> -> 4
      [] OTHER -> NoneT
\* Txpo with the codes 2 and 3 exchanged.
TxpoMut(tx, rts, cts) ==
    CASE <<rts, cts>> = <<NoneT, NoneT>> -> 0
      [] <<rts, cts>> = <<Pad2, Pad3>> -> 3
      [] <<rts, cts>> = <<Pad2, NoneT>> -> 2
      [] OTHER -> NoneT
\* <(TX, RTS, CTS) as Txpo>::TXPO
Txpo(tx, rts, cts) ==
    CASE <<rts, cts>> = <<NoneT, NoneT>> -> 0
      [] <<rts, cts>> = <<Pad2, Pad3>> -> 2
      [] <<rts, cts>> = <<Pad2, NoneT>> -> 3
      [] OTHER -> NoneT

\* NotPad0 that also admits Pad0.
NotPad0Mut(padnum) == padnum \in {Pad0, Pad1, Pad2, Pad3}
\* NotPad0: Pad1, Pad2, Pad3.
NotPad0(padnum) == padnum \in {Pad1, Pad2, Pad3}

\* RxpoTxpo whose HalfDuplex implementation bounds (NoneT, RTS, CTS) instead of (IO, RTS, CTS).
RxpoTxpoDefinedMut(p) ==
    LET rts == PadNum(p.ready_to_send)
        cts == PadNum(p.clear_to_send)
        io == p.io_pads
    IN CASE io.shape = FullDuplex ->
              /\ NotPad0(PadNum(io.receive))
              /\ TxpoDefined(PadNum(io.transmit), rts, cts)
         [] io.shape = HalfDuplex -> TxpoDefined(NoneT, rts, cts)
         [] io.shape = RxSimplex -> TxpoDefined(NoneT, rts, cts)
         [] io.shape = TxSimplex -> TxpoDefined(PadNum(io.transmit), rts, cts)
         [] OTHER -> FALSE
\* Pads<..>: RxpoTxpo, the four implementations.
RxpoTxpoDefined(p) ==
    LET rts == PadNum(p.ready_to_send)
        cts == PadNum(p.clear_to_send)
        io == p.io_pads
    IN CASE io.shape = FullDuplex ->
              /\ NotPad0(PadNum(io.receive))
              /\ TxpoDefined(PadNum(io.transmit), rts, cts)
         [] io.shape = HalfDuplex -> TxpoDefined(PadNum(io.io), rts, cts)
         [] io.shape = RxSimplex -> TxpoDefined(NoneT, rts, cts)
         [] io.shape = TxSimplex -> TxpoDefined(PadNum(io.transmit), rts, cts)
         [] OTHER -> FALSE

\* RXPO that forgets the Rx pad of a receive-only pad set.
RXPOMut(p) ==
    LET io == p.io_pads
    IN CASE io.shape = FullDuplex -> Rxpo(PadNum(io.receive))
         [] io.shape = HalfDuplex -> Rxpo(PadNum(io.io))
         [] OTHER -> Rxpo(NoneT)
\* RxpoTxpo::RXPO
RXPO(p) ==
    LET io == p.io_pads
    IN CASE io.shape = FullDuplex -> Rxpo(PadNum(io.receive))
         [] io.shape = HalfDuplex -> Rxpo(PadNum(io.io))
         [] io.shape = RxSimplex -> Rxpo(PadNum(io.receive))
         [] OTHER -> Rxpo(NoneT)

\* RxpoTxpo::TXPO
TXPO(p) ==
    LET rts == PadNum(p.ready_to_send)
        cts == PadNum(p.clear_to_send)
        io == p.io_pads
    IN CASE io.shape = FullDuplex -> Txpo(PadNum(io.transmit), rts, cts)
         [] io.shape = HalfDuplex -> Txpo(PadNum(io.io), rts, cts)
         [] io.shape = RxSimplex -> Txpo(NoneT, rts, cts)
         [] OTHER -> Txpo(PadNum(io.transmit), rts, cts)

\* ------------------------------------------------ pads_thumbv7em.rs: ValidPads

\* ValidPads with an implementation for the Empty shape.
ValidPadsDefinedMutEmpty(p) ==
    CASE p.io_pads.shape = RxSimplex -> p.clear_to_send = NoPin /\ RxpoTxpoDefined(p)
      [] p.io_pads.shape = TxSimplex -> p.ready_to_send = NoPin /\ RxpoTxpoDefined(p)
      [] p.io_pads.shape = FullDuplex -> RxpoTxpoDefined(p)
      [] p.io_pads.shape = HalfDuplex -> RxpoTxpoDefined(p)
      [] OTHER -> TxpoDefined(NoneT, PadNum(p.ready_to_send), PadNum(p.clear_to_send))
\* ValidPads whose RxSimplex implementation lacks the RxpoTxpo supertrait.
ValidPadsDefinedMutNoRxpoTxpo(p) ==
    CASE p.io_pads.shape = RxSimplex -> p.clear_to_send = NoPin
      [] p.io_pads.shape = TxSimplex -> p.ready_to_send = NoPin /\ RxpoTxpoDefined(p)
      [] p.io_pads.shape = FullDuplex -> RxpoTxpoDefined(p)
      [] p.io_pads.shape = HalfDuplex -> RxpoTxpoDefined(p)
      [] OTHER -> FALSE
\* ValidPads whose RxSimplex implementation admits any CTS.
ValidPadsDefinedMutCts(p) ==
    CASE p.io_pads.shape = RxSimplex -> RxpoTxpoDefined(p)
      [] p.io_pads.shape = TxSimplex -> p.ready_to_send = NoPin /\ RxpoTxpoDefined(p)
      [] p.io_pads.shape = FullDuplex -> RxpoTxpoDefined(p)
      [] p.io_pads.shape = HalfDuplex -> RxpoTxpoDefined(p)
      [] OTHER -> FALSE
\* ValidPads whose TxSimplex implementation admits any RTS.
ValidPadsDefinedMutRts(p) ==
    CASE p.io_pads.shape = RxSimplex -> p.clear_to_send = NoPin /\ RxpoTxpoDefined(p)
      [] p.io_pads.shape = TxSimplex -> RxpoTxpoDefined(p)
      [] p.io_pads.shape = FullDuplex -> RxpoTxpoDefined(p)
      [] p.io_pads.shape = HalfDuplex -> RxpoTxpoDefined(p)
      [] OTHER -> FALSE
\* Pads<..>: ValidPads, the four implementations.
ValidPadsDefined(p) ==
    CASE p.io_pads.shape = RxSimplex -> p.clear_to_send = NoPin /\ RxpoTxpoDefined(p)
      [] p.io_pads.shape = TxSimplex -> p.ready_to_send = NoPin /\ RxpoTxpoDefined(p)
      [] p.io_pads.shape = FullDuplex -> RxpoTxpoDefined(p)
      [] p.io_pads.shape = HalfDuplex -> RxpoTxpoDefined(p)
      [] OTHER -> FALSE

\* Capability with Rx and Tx exchanged.
CapabilityMut(p) ==
    CASE p.io_pads.shape = RxSimplex -> CapTx
      [] p.io_pads.shape = TxSimplex -> CapRx
      [] OTHER -> CapDuplex
\* ValidPads::Capability
Capability(p) ==
    CASE p.io_pads.shape = RxSimplex -> CapRx
      [] p.io_pads.shape = TxSimplex -> CapTx
      [] OTHER -> CapDuplex

\* No finalize has happened.
NoResult == [done |-> FALSE, ok |-> FALSE, err |-> "none", cap |-> NoCap, rxpo |-> NoneT, txpo |-> NoneT]

Failed(e) == [done |-> TRUE, ok |-> FALSE, err |-> e, cap |-> NoCap, rxpo |-> NoneT, txpo |-> NoneT]

\* Finalize that looks for the routing code before the data role.
FinalizeMut(p) ==
    IF ValidPadsDefined(p)
    THEN [done |-> TRUE, ok |-> TRUE, err |-> "none", cap |-> Capability(p),
          rxpo |-> RXPO(p), txpo |-> TXPO(p)]
    ELSE IF ~TxpoDefined(PadNum(IoTX(p.io_pads)), PadNum(p.ready_to_send),
                         PadNum(p.clear_to_send))
         THEN Failed(IllegalRoutingCombination)
         ELSE Failed(NoDataRole)
\* Config<P, C>: ValidConfig needs P: ValidPads.  A pad set without a data
\* pad has no ValidPads implementation at all (NoDataRole); a pad set with
\* data pads whose ValidPads bounds fail has no routing code
\* (IllegalRoutingCombination).
Finalize(p) ==
    IF ValidPadsDefined(p)
    THEN [done |-> TRUE, ok |-> TRUE, err |-> "none", cap |-> Capability(p),
          rxpo |-> RXPO(p), txpo |-> TXPO(p)]
    ELSE IF p.io_pads.shape = Empty THEN Failed(NoDataRole)
         ELSE Failed(IllegalRoutingCombination)

\* --------------------------------------------- pads_thumbv7em.rs: builder

\* The outcome of a builder call: the error, or Ok and the new pad set; a
\* refused call leaves the pad set as it was.
Accept(p) == [out |-> Ok, pads |-> p]
Refuse(e, p) == [out |-> e, pads |-> p]

\* The bounds every bind puts on its pin: Id: GetPad<S>, Pad<S, Id>: InIoSet<I>.
PinBounds(pin) == GetPadDefined(pin) /\ InIoSet(pin)

\* update_io that forgets the CTS pad.
update_ioMut(p, io) ==
    [io_pads |-> io, ready_to_send |-> p.ready_to_send, clear_to_send |-> NoPin]
\* Pads::update_io
update_io(p, io) ==
    [io_pads |-> io, ready_to_send |-> p.ready_to_send, clear_to_send |-> p.clear_to_send]

\* Pads<S, I, Empty, RTS, CTS>::rx
EmptyRx(p, pin) == update_io(p, IoRxSimplex(pin))

\* Pads<S, I, Empty, RTS, CTS>::tx
EmptyTx(p, pin) == update_io(p, IoTxSimplex(pin))

\* Pads<S, I, Empty, RTS, CTS>::io
EmptyIo(p, pin) == update_io(p, IoHalfDuplex(pin))

\* TxSimplex::rx with receive and transmit exchanged.
TxSimplexRxMut(p, pin) ==
    [io_pads |-> IoFullDuplex(p.io_pads.transmit, pin),
     ready_to_send |-> p.ready_to_send, clear_to_send |-> p.clear_to_send]
\* Pads<S, I, TxSimplex<TX>, RTS, CTS>::rx
TxSimplexRx(p, pin) ==
    [io_pads |-> IoFullDuplex(pin, p.io_pads.transmit),
     ready_to_send |-> p.ready_to_send, clear_to_send |-> p.clear_to_send]

\* Pads<S, I, RxSimplex<RX>, RTS, CTS>::tx
RxSimplexTx(p, pin) ==
    [io_pads |-> IoFullDuplex(p.io_pads.receive, pin),
     ready_to_send |-> p.ready_to_send, clear_to_send |-> p.clear_to_send]

\* rx that also exists for Pads<.., RxSimplex<RX>, ..> and binds Rx again.
RxMut(p, pin) ==
    IF p.io_pads.shape \notin {Empty, TxSimplex, RxSimplex} THEN Refuse(RoleAlreadyBound, p)
    ELSE IF ~PinBounds(pin) THEN Refuse(IncompatiblePin, p)
    ELSE IF p.io_pads.shape \in {Empty, RxSimplex} THEN Accept(EmptyRx(p, pin))
    ELSE Accept(TxSimplexRx(p, pin))
\* rx exists for Pads<.., Empty, ..> and Pads<.., TxSimplex<TX>, ..> only.
Rx(p, pin) ==
    IF p.io_pads.shape \notin {Empty, TxSimplex} THEN Refuse(RoleAlreadyBound, p)
    ELSE IF ~PinBounds(pin) THEN Refuse(IncompatiblePin, p)
    ELSE IF p.io_pads.shape = Empty THEN Accept(EmptyRx(p, pin))
    ELSE Accept(TxSimplexRx(p, pin))

\* tx exists for Pads<.., Empty, ..> and Pads<.., RxSimplex<RX>, ..> only.
Tx(p, pin) ==
    IF p.io_pads.shape \notin {Empty, RxSimplex} THEN Refuse(RoleAlreadyBound, p)
    ELSE IF ~PinBounds(pin) THEN Refuse(IncompatiblePin, p)
    ELSE IF p.io_pads.shape = Empty THEN Accept(EmptyTx(p, pin))
    ELSE Accept(RxSimplexTx(p, pin))

\* io that also exists for Pads<.., RxSimplex<RX>, ..>.
IoMut(p, pin) ==
    IF p.io_pads.shape \notin {Empty, RxSimplex} THEN Refuse(RoleAlreadyBound, p)
    ELSE IF ~PinBounds(pin) THEN Refuse(IncompatiblePin, p)
    ELSE Accept(EmptyIo(p, pin))
\* io exists for Pads<.., Empty, ..> only.
Io(p, pin) ==
    IF p.io_pads.shape # Empty THEN Refuse(RoleAlreadyBound, p)
    ELSE IF ~PinBounds(pin) THEN Refuse(IncompatiblePin, p)
    ELSE Accept(EmptyIo(p, pin))

\* Pads::rts, for every P, RTS and CTS: the ready_to_send field is replaced.
Rts(p, pin) ==
    IF ~PinBounds(pin) THEN Refuse(IncompatiblePin, p)
    ELSE Accept([io_pads |-> p.io_pads, ready_to_send |-> pin,
                 clear_to_send |-> p.clear_to_send])

\* Pads::cts, for every P, RTS and CTS: the clear_to_send field is replaced.
Cts(p, pin) ==
    IF ~PinBounds(pin) THEN Refuse(IncompatiblePin, p)
    ELSE Accept([io_pads |-> p.io_pads, ready_to_send |-> p.ready_to_send,
                 clear_to_send |-> pin])

\* Pads::free
free(p) ==
    LET io == p.io_pads
        data == CASE io.shape = Empty -> <<>>
                  [] io.shape = RxSimplex -> <<io.receive>>
                  [] io.shape = TxSimplex -> <<io.transmit>>
                  [] io.shape = HalfDuplex -> <<io.io>>
                  [] OTHER -> <<io.receive, io.transmit>>
    IN <<data, p.ready_to_send, p.clear_to_send>>

\* ------------------------------------------- pads_thumbv7em.rs: PadsFromIds

\* SomePad: a pin that is a pad of the SERCOM.
SomePad(pin) == GetPadDefined(pin)

\* GetOptionalPad<S>: NoneT, or an identifier with a pad of the SERCOM.
GetOptionalPadDefined(pin) == pin = NoPin \/ GetPadDefined(pin)

\* (RX, TX): IoMapType, the four implementations.
IoMapTypeDefined(rx_pin, tx_pin) ==
    CASE rx_pin = NoPin /\ tx_pin = NoPin -> TRUE
      [] rx_pin # NoPin /\ tx_pin = NoPin -> SomePad(rx_pin)
      [] rx_pin = NoPin /\ tx_pin # NoPin -> SomePad(tx_pin)
      [] OTHER -> SomePad(rx_pin) /\ NotPad0(PadNum(rx_pin)) /\ SomePad(tx_pin)

\* IoMapType with the two simplex shapes exchanged.
IoMappedMut(rx_pin, tx_pin) ==
    CASE rx_pin = NoPin /\ tx_pin = NoPin -> IoEmpty
      [] rx_pin # NoPin /\ tx_pin = NoPin -> IoTxSimplex(rx_pin)
      [] rx_pin = NoPin /\ tx_pin # NoPin -> IoRxSimplex(tx_pin)
      [] OTHER -> IoFullDuplex(rx_pin, tx_pin)
\* <(RX, TX) as IoMapType>::IoMapped
IoMapped(rx_pin, tx_pin) ==
    CASE rx_pin = NoPin /\ tx_pin = NoPin -> IoEmpty
      [] rx_pin # NoPin /\ tx_pin = NoPin -> IoRxSimplex(rx_pin)
      [] rx_pin = NoPin /\ tx_pin # NoPin -> IoTxSimplex(tx_pin)
      [] OTHER -> IoFullDuplex(rx_pin, tx_pin)

\* PadsFromIds<S, I, RX, TX, RTS, CTS> names a type.
PadsFromIdsDefined(rx_pin, tx_pin, rts_pin, cts_pin) ==
    /\ IoMapTypeDefined(rx_pin, tx_pin)
    /\ GetOptionalPadDefined(rts_pin)
    /\ GetOptionalPadDefined(cts_pin)

\* PadsFromIds<S, I, RX, TX, RTS, CTS>
PadsFromIds(rx_pin, tx_pin, rts_pin, cts_pin) ==
    [io_pads |-> IoMapped(rx_pin, tx_pin), ready_to_send |-> rts_pin,
     clear_to_send |-> cts_pin]
\* ------------------------------------------------------- pads2.rs: builder

\* PadRoles::default()
PadRolesDefault == [rx |-> NoneT, tx |-> NoneT, clk |-> NoneT, rts |-> NoneT, cts |-> NoneT]

\* Pads::default(s): no physical pin, default roles.
Pads2Default == [p |-> [s \in PadNums |-> NoPin], roles |-> PadRolesDefault]

\* ReplacePad implemented for an occupied physical pad too.
ReplacePadDefinedMut(q, pin) == TRUE
\* Self: ReplacePad<PadNum, P>: implemented only while that physical pad is NoneT.
ReplacePadDefined(q, pin) == q.p[PadNum(pin)] = NoPin

\* Pads::replace_pad: the pin goes into the physical pad of its pad number.
replace_pad(q, pin) == [p |-> [q.p EXCEPT ![PadNum(pin)] = pin], roles |-> q.roles]

\* The part all binds of pads2.rs share: the role must be NoneT, the pin must
\* have a pad on the SERCOM, and ReplacePad must be implemented.
Bind2(q, role, pin, newroles) ==
    IF q.roles[role] # NoneT THEN Refuse(RoleAlreadyBound, q)
    ELSE IF ~GetPadDefined(pin) THEN Refuse(IncompatiblePin, q)
    ELSE IF ~ReplacePadDefined(q, pin) THEN Refuse(SlotConflict, q)
    ELSE Accept([p |-> replace_pad(q, pin).p, roles |-> newroles])

\* pads2 Pads::rx
Rx2(q, pin) == Bind2(q, "rx", pin, [q.roles EXCEPT !.rx = PadNum(pin)])

\* pads2 Pads::tx
Tx2(q, pin) == Bind2(q, "tx", pin, [q.roles EXCEPT !.tx = PadNum(pin)])

\* pads2 Pads::io: needs Rx = NoneT and Tx = NoneT.
Io2(q, pin) ==
    IF q.roles.tx # NoneT THEN Refuse(RoleAlreadyBound, q)
    ELSE Bind2(q, "rx", pin, [q.roles EXCEPT !.rx = PadNum(pin), !.tx = PadNum(pin)])

\* pads2 Pads::clk
Clk2(q, pin) == Bind2(q, "clk", pin, [q.roles EXCEPT !.clk = PadNum(pin)])

\* pads2 Pads::rts
Rts2(q, pin) == Bind2(q, "rts", pin, [q.roles EXCEPT !.rts = PadNum(pin)])

\* pads2 Pads::cts
Cts2(q, pin) == Bind2(q, "cts", pin, [q.roles EXCEPT !.cts = PadNum(pin)])

\* pads2 Rxpo
Rxpo2(padnum) ==
    CASE padnum = NoneT -> 0
      [] padnum = Pad0 -> 0
      [] padnum = Pad1 -> 1
      [] padnum = Pad2 -> 2
      [] padnum = Pad3 -> 3

\* The pads2 table with RTS alone coded 2.
Txpo2TableMut ==
    [t \in {<<NoneT, NoneT, NoneT, NoneT>>, <<Pad0, NoneT, NoneT, NoneT>>,
            <<NoneT, Pad1, NoneT, NoneT>>, <<Pad0, Pad1, NoneT, NoneT>>} |-> 0]
    @@ [t \in {<<NoneT, NoneT, Pad2, Pad3>>, <<NoneT, NoneT, NoneT, Pad3>>,
               <<Pad0, NoneT, NoneT, Pad3>>, <<Pad0, NoneT, Pad2, Pad3>>} |-> 2]
    @@ [t \in {<<Pad0, Pad1, Pad2, NoneT>>, <<NoneT, Pad1, Pad2, NoneT>>} |-> 3]
    @@ [t \in {<<Pad0, NoneT, Pad2, NoneT>>, <<NoneT, NoneT, Pad2, NoneT>>} |-> 2]
\* pads2 Txpo, over (Tx, Clk, Rts, Cts).
Txpo2Table ==
    [t \in {<<NoneT, NoneT, NoneT, NoneT>>, <<Pad0, NoneT, NoneT, NoneT>>,
            <<NoneT, Pad1, NoneT, NoneT>>, <<Pad0, Pad1, NoneT, NoneT>>} |-> 0]
    @@ [t \in {<<NoneT, NoneT, Pad2, Pad3>>, <<NoneT, NoneT, NoneT, Pad3>>,
               <<Pad0, NoneT, NoneT, Pad3>>, <<Pad0, NoneT, Pad2, Pad3>>} |-> 2]
    @@ [t \in {<<Pad0, Pad1, Pad2, NoneT>>, <<NoneT, Pad1, Pad2, NoneT>>,
               <<Pad0, NoneT, Pad2, NoneT>>, <<NoneT, NoneT, Pad2, NoneT>>} |-> 3]

Txpo2Defined(tx, clk, rts, cts) == <<tx, clk, rts, cts>> \in DOMAIN Txpo2Table

Txpo2(tx, clk, rts, cts) == Txpo2Table[<<tx, clk, rts, cts>>]

\* The pins a pads2 pad set holds.
HeldPins2(q) == {q.p[s] : s \in PadNums} \ {NoPin}

\* ------------------------------------------------------------ state machine

VARIABLES
    which,      \* the builder a run uses: "thumbv7em" or "pads2"
    pads,       \* the pads_thumbv7em.rs pad set
    pads2,      \* the pads2.rs pad set
    last,       \* the last call and its outcome
    result      \* what handing the pad set to Config gave (NoResult before)

vars == <<which, pads, pads2, last, result>>

Init ==
    /\ which \in {"thumbv7em", "pads2"}
    /\ pads = PadsDefault
    /\ pads2 = Pads2Default
    /\ last = [op |-> "default", out |-> Ok]
    /\ result = NoResult

\* A pin the caller still owns: the builder took its pins by value.
Owned == Pins \ (HeldPins(pads) \cup HeldPins2(pads2))

\* A refused call is a program the compiler rejects: nothing follows it.
Building == which = "thumbv7em" /\ last.out = Ok /\ ~result.done

Building2 == which = "pads2" /\ last.out = Ok

Call(op, r) ==
    /\ pads' = r.pads
    /\ last' = [op |-> op, out |-> r.out]
    /\ UNCHANGED <<which, pads2, result>>

Call2(op, r) ==
    /\ pads2' = r.pads
    /\ last' = [op |-> op, out |-> r.out]
    /\ UNCHANGED <<which, pads, result>>

rx == Building /\ \E pin \in Owned : Call("rx", Rx(pads, pin))
tx == Building /\ \E pin \in Owned : Call("tx", Tx(pads, pin))
io == Building /\ \E pin \in Owned : Call("io", Io(pads, pin))
rts == Building /\ \E pin \in Owned : Call("rts", Rts(pads, pin))
cts == Building /\ \E pin \in Owned : Call("cts", Cts(pads, pin))

\* The pad set is handed to Config, which needs P: ValidPads; the builder is
\* consumed.
finalize ==
    /\ Building
    /\ result' = Finalize(pads)
    /\ last' = [op |-> "finalize", out |-> IF result'.ok THEN Ok ELSE result'.err]
    /\ UNCHANGED <<which, pads, pads2>>

rx2 == Building2 /\ \E pin \in Owned : Call2("rx", Rx2(pads2, pin))
tx2 == Building2 /\ \E pin \in Owned : Call2("tx", Tx2(pads2, pin))
io2 == Building2 /\ \E pin \in Owned : Call2("io", Io2(pads2, pin))
clk2 == Building2 /\ \E pin \in Owned : Call2("clk", Clk2(pads2, pin))
rts2 == Building2 /\ \E pin \in Owned : Call2("rts", Rts2(pads2, pin))
cts2 == Building2 /\ \E pin \in Owned : Call2("cts", Cts2(pads2, pin))

Next ==
    \/ rx
    \/ tx
    \/ io
    \/ rts
    \/ cts
    \/ finalize
    \/ rx2
    \/ tx2
    \/ io2
    \/ clk2
    \/ rts2
    \/ cts2

Spec == Init /\ [][Next]_vars

TypeOK ==
    /\ which \in {"thumbv7em", "pads2"}
    /\ pads.io_pads.shape \in {Empty, RxSimplex, TxSimplex, HalfDuplex, FullDuplex}
    /\ HeldPins(pads) \subseteq Pins
    /\ HeldPins2(pads2) \subseteq Pins
    /\ result.done \in BOOLEAN

\* ------------------------------------------------------------------ claims

THUMB == "thumbv7em"
PADS2 == "pads2"

\* The pins bound to the Rx and Tx roles (a half-duplex IO pin is both).
RxPin == IoRX(pads.io_pads)
TxPin == IoTX(pads.io_pads)

\* The (TX slot, RTS slot, CTS slot) triple of the pad set, NoneT = unbound.
Triple == <<PadNum(TxPin), PadNum(pads.ready_to_send), PadNum(pads.clear_to_send)>>

DataRole == RxPin # NoPin \/ TxPin # NoPin

RxSlotOrZero == IF RxPin = NoPin THEN 0 ELSE PadNum(RxPin)

\* The routing table as section 4.4 of the specification lists it.
SpecTable ==
    [t \in {<<NoneT, NoneT, NoneT>>, <<Pad0, NoneT, NoneT>>} |-> 0]
    @@ [t \in {<<Pad2, NoneT, NoneT>>} |-> 3]
    @@ [t \in {<<Pad2, Pad3, NoneT>>, <<Pad0, NoneT, Pad3>>, <<Pad0, Pad2, Pad3>>} |-> 2]

\* The routing table of the TXPO field: TX on pad 0 or absent, and
\* no flow control -> 0, RTS on pad 2 with CTS on pad 3 -> 2, RTS on pad 2 alone -> 3.
RowTable ==
    [t \in {<<NoneT, NoneT, NoneT>>, <<Pad0, NoneT, NoneT>>} |-> 0]
    @@ [t \in {<<NoneT, Pad2, Pad3>>, <<Pad0, Pad2, Pad3>>} |-> 2]
    @@ [t \in {<<NoneT, Pad2, NoneT>>, <<Pad0, Pad2, NoneT>>} |-> 3]

\* The pad set has a data role and the shape its capability needs: Rx off
\* pad 0 when Rx and Tx are two pins, no CTS on a receive-only pad set, no
\* RTS on a transmit-only one.
Eligible ==
    /\ DataRole
    /\ pads.io_pads.shape = FullDuplex => PadNum(pads.io_pads.receive) # Pad0
    /\ pads.io_pads.shape = RxSimplex => pads.clear_to_send = NoPin
    /\ pads.io_pads.shape = TxSimplex => pads.ready_to_send = NoPin

NoConfiguration == ~result.ok /\ result.cap = NoCap /\ result.rxpo = NoneT /\ result.txpo = NoneT

\* C1 (as stated): every row of the section 4.4 table, held by a pad set with a
\* data role, finalizes to RXPO = the Rx slot (0 when unbound) and the
\* TXPO the row lists.
C1_SpecTableRows ==
    (result.done /\ DataRole /\ Triple \in DOMAIN SpecTable) =>
        /\ result.ok
        /\ result.rxpo = RxSlotOrZero
        /\ result.txpo = SpecTable[Triple]

\* C1 (amended): every row (TX on pad 0 or unbound; no RTS/CTS -> 0, RTS 2 and
\* CTS 3 -> 2, RTS 2 alone -> 3) held by an eligible pad set finalizes to
\* RXPO = the Rx slot (0 when unbound) and the TXPO of the row.
C1_RowTableRows ==
    (result.done /\ Eligible /\ Triple \in DOMAIN RowTable) =>
        /\ result.ok
        /\ result.rxpo = RxSlotOrZero
        /\ result.txpo = RowTable[Triple]

C1_Witness ==
    /\ result.ok
    /\ pads.io_pads.shape = FullDuplex
    /\ Triple = <<Pad0, Pad2, NoneT>>
    /\ result.txpo = 3

\* C2 (as stated): a pad set with a data role whose triple is not a row of
\* the section 4.4 table fails to finalize with IllegalRoutingCombination.
C2_OffSpecTableFails ==
    (result.done /\ DataRole /\ Triple \notin DOMAIN SpecTable) =>
        NoConfiguration /\ result.err = IllegalRoutingCombination

\* C2 (amended): a pad set whose triple is not one of (0 or unbound, -, -),
\* (0 or unbound, 2, 3), (0 or unbound, 2, -) fails to finalize and yields no
\* Configuration; the error is IllegalRoutingCombination when a data role is
\* bound.
C2_OffRowTableFails ==
    (result.done /\ Triple \notin DOMAIN RowTable) =>
        /\ NoConfiguration
        /\ DataRole => result.err = IllegalRoutingCombination

C2_Witness ==
    /\ result.done
    /\ Triple = <<Pad2, NoneT, NoneT>>
    /\ result.err = IllegalRoutingCombination

\* C3: a bind of a role that is already bound is rejected and leaves the
\* builder as it was (no silent replacement of the bound pin), for each of
\* rx, tx, rts, cts of both builders; the rejection is RoleAlreadyBound (for
\* rts and cts of pads_thumbv7em.rs any rejection is taken to comply).
C3_NoSilentRebind ==
    [][/\ (which = THUMB /\ last'.op = "rx" /\ RxPin # NoPin)
            => (last'.out = RoleAlreadyBound /\ pads' = pads)
       /\ (which = THUMB /\ last'.op = "tx" /\ TxPin # NoPin)
            => (last'.out = RoleAlreadyBound /\ pads' = pads)
       /\ (which = THUMB /\ last'.op = "rts" /\ pads.ready_to_send # NoPin)
            => (last'.out # Ok /\ pads' = pads)
       /\ (which = THUMB /\ last'.op = "cts" /\ pads.clear_to_send # NoPin)
            => (last'.out # Ok /\ pads' = pads)
       /\ \A r \in {"rx", "tx", "rts", "cts"} :
            (which = PADS2 /\ last'.op = r /\ pads2.roles[r] # NoneT)
                => (last'.out = RoleAlreadyBound /\ pads2' = pads2)
      ]_vars

\* C4: a Configuration whose Rx slot equals its Tx slot has the half-duplex
\* shape; Rx and Tx bound by rx and tx to the same slot never finalize, and
\* the pad-slot builder refuses the second of the two binds.
C4_SameSlotOnlyHalfDuplex ==
    /\ (result.ok /\ RxPin # NoPin /\ TxPin # NoPin /\ PadNum(RxPin) = PadNum(TxPin))
            => pads.io_pads.shape = HalfDuplex
    /\ (which = PADS2 /\ last.op \in {"rx", "tx"} /\ last.out = Ok)
            => pads2.roles.rx # pads2.roles.tx

C4_Witness ==
    /\ result.done
    /\ ~result.ok
    /\ pads.io_pads.shape = FullDuplex
    /\ PadNum(pads.io_pads.receive) = PadNum(pads.io_pads.transmit)

\* The pairs of different roles among rx, tx, rts, cts (one order of each:
\* the property below is symmetric in the two binds).
RolePairs ==
    {<<"rx", "tx">>, <<"rx", "rts">>, <<"rx", "cts">>,
     <<"tx", "rts">>, <<"tx", "cts">>, <<"rts", "cts">>}

\* A bind of pads_thumbv7em.rs by name.
Apply(op, p, pin) ==
    CASE op = "rx" -> Rx(p, pin)
      [] op = "tx" -> Tx(p, pin)
      [] op = "rts" -> Rts(p, pin)
      [] op = "cts" -> Cts(p, pin)

\* A bind of pads2.rs by name.
Apply2(op, q, pin) ==
    CASE op = "rx" -> Rx2(q, pin)
      [] op = "tx" -> Tx2(q, pin)
      [] op = "rts" -> Rts2(q, pin)
      [] op = "cts" -> Cts2(q, pin)

\* C5: from every builder state, two binds of different roles with pins on
\* different slots succeed in one order exactly when they succeed in the
\* other, and then give the same pad set and the same finalize outcome
\* (so every permutation of a set of non-conflicting binds ends in the same
\* RoleAssignment and Configuration).
C5_OrderIndependent ==
    (last.out = Ok /\ ~result.done) =>
        \A o \in RolePairs, a \in Owned, b \in Owned :
            LET o1 == o[1]
                o2 == o[2]
            IN PadNum(a) # PadNum(b) =>
                /\ which = THUMB =>
                    LET r1 == Apply(o1, pads, a)
                        r12 == Apply(o2, r1.pads, b)
                        r2 == Apply(o2, pads, b)
                        r21 == Apply(o1, r2.pads, a)
                    IN /\ (r1.out = Ok /\ r12.out = Ok) <=> (r2.out = Ok /\ r21.out = Ok)
                       /\ (r1.out = Ok /\ r12.out = Ok) =>
                            /\ r12.pads = r21.pads
                            /\ Finalize(r12.pads) = Finalize(r21.pads)
                /\ which = PADS2 =>
                    LET r1 == Apply2(o1, pads2, a)
                        r12 == Apply2(o2, r1.pads, b)
                        r2 == Apply2(o2, pads2, b)
                        r21 == Apply2(o1, r2.pads, a)
                    IN /\ (r1.out = Ok /\ r12.out = Ok) <=> (r2.out = Ok /\ r21.out = Ok)
                       /\ (r1.out = Ok /\ r12.out = Ok) => r12.pads = r21.pads

\* Rx bound after Tx: the order opposite to rx(a).tx(b).
C5_Witness ==
    /\ which = THUMB
    /\ pads.io_pads.shape = FullDuplex
    /\ last = [op |-> "rx", out |-> Ok]
    /\ PadNum(pads.io_pads.receive) # PadNum(pads.io_pads.transmit)

\* C6: a successful finalize gives ReceiveOnly when only Rx is bound,
\* TransmitOnly when only Tx is bound, FullDuplex when both are (two pins or
\* one half-duplex pin), and nothing else.
C6_Capability ==
    result.ok =>
        /\ result.cap \in {CapRx, CapTx, CapDuplex}
        /\ result.cap = CapRx <=> (RxPin # NoPin /\ TxPin = NoPin)
        /\ result.cap = CapTx <=> (TxPin # NoPin /\ RxPin = NoPin)
        /\ result.cap = CapDuplex <=> (RxPin # NoPin /\ TxPin # NoPin)

C6_Witness ==
    /\ result.ok
    /\ result.cap = CapRx
    /\ pads.io_pads.shape = RxSimplex

\* C7: finalize of a pad set with no Rx, Tx or half-duplex IO pin fails with
\* NoDataRole and yields no Configuration, with or without RTS and CTS.
C7_NoDataRole ==
    (result.done /\ RxPin = NoPin /\ TxPin = NoPin) =>
        NoConfiguration /\ result.err = NoDataRole

C7_Witness ==
    /\ result.done
    /\ ~DataRole
    /\ pads.ready_to_send # NoPin
    /\ result.err = NoDataRole

NoFlowControl == pads.ready_to_send = NoPin /\ pads.clear_to_send = NoPin

\* C8 (as stated): Rx on slot 0, Tx on slot 1, no flow control: finalize
\* succeeds with FullDuplex, RXPO = 0, TXPO = 0.
C8_Rx0Tx1 ==
    (/\ result.done
     /\ pads.io_pads.shape = FullDuplex
     /\ PadNum(pads.io_pads.receive) = Pad0
     /\ PadNum(pads.io_pads.transmit) = Pad1
     /\ NoFlowControl) =>
        result.ok /\ result.cap = CapDuplex /\ result.rxpo = 0 /\ result.txpo = 0

\* C8 (amended): Rx on slot 1, Tx on slot 0, no flow control: finalize
\* succeeds with FullDuplex, RXPO = 1, TXPO = 0.
C8_Rx1Tx0 ==
    (/\ result.done
     /\ pads.io_pads.shape = FullDuplex
     /\ PadNum(pads.io_pads.receive) = Pad1
     /\ PadNum(pads.io_pads.transmit) = Pad0
     /\ NoFlowControl) =>
        result.ok /\ result.cap = CapDuplex /\ result.rxpo = 1 /\ result.txpo = 0

C8_Witness ==
    /\ result.done
    /\ pads.io_pads.shape = FullDuplex
    /\ PadNum(pads.io_pads.receive) = Pad1
    /\ PadNum(pads.io_pads.transmit) = Pad0
    /\ NoFlowControl
    /\ result.rxpo = 1

\* C9: only Rx bound, on slot 2: finalize succeeds with ReceiveOnly,
\* RXPO = 2, TXPO = 0.
C9_RxOnlySlot2 ==
    (/\ result.done
     /\ pads.io_pads.shape = RxSimplex
     /\ PadNum(pads.io_pads.receive) = Pad2
     /\ NoFlowControl) =>
        result.ok /\ result.cap = CapRx /\ result.rxpo = 2 /\ result.txpo = 0

C9_Witness ==
    /\ result.done
    /\ pads.io_pads.shape = RxSimplex
    /\ PadNum(pads.io_pads.receive) = Pad2
    /\ NoFlowControl
    /\ result.rxpo = 2

\* C10: Tx on slot 0 and RTS on slot 2, no Rx, no CTS: finalize fails with
\* IllegalRoutingCombination and yields no Configuration.
C10_Tx0Rts2Fails ==
    (/\ result.done
     /\ pads.io_pads.shape = TxSimplex
     /\ PadNum(pads.io_pads.transmit) = Pad0
     /\ PadNum(pads.ready_to_send) = Pad2
     /\ pads.clear_to_send = NoPin) =>
        NoConfiguration /\ result.err = IllegalRoutingCombination

C10_Witness ==
    /\ result.done
    /\ pads.io_pads.shape = TxSimplex
    /\ PadNum(pads.io_pads.transmit) = Pad0
    /\ PadNum(pads.ready_to_send) = Pad2
    /\ pads.clear_to_send = NoPin
    /\ result.err = IllegalRoutingCombination

\* C11: Tx on slot 0 and CTS on slot 3, RTS unbound (in a pad set whose shape
\* its capability admits): finalize succeeds with TXPO = 2.
C11_Tx0Cts3 ==
    (result.done /\ Eligible /\ Triple = <<Pad0, NoneT, Pad3>>) =>
        result.ok /\ result.txpo = 2

\* C12: in every Configuration RXPO is 0 when no Rx is bound and the slot
\* number N (0..3) of the pin that receives (the Rx pin, or the half-duplex
\* IO pin) otherwise; the pad-slot builder's RXPO is the Rx role's slot
\* in the same way.
C12_RxpoIsRxSlot ==
    /\ result.ok =>
        /\ result.rxpo \in 0..3
        /\ RxPin = NoPin => result.rxpo = 0
        /\ RxPin # NoPin => result.rxpo = PadNum(RxPin)
    /\ (which = PADS2 /\ last.out = Ok) =>
        Rxpo2(pads2.roles.rx) = IF pads2.roles.rx = NoneT THEN 0 ELSE pads2.roles.rx

C12_Witness ==
    /\ result.ok
    /\ pads.io_pads.shape = RxSimplex
    /\ PadNum(pads.io_pads.receive) = Pad3
    /\ result.rxpo = 3

\* C13: finalize is atomic.  A Configuration exists only when the pad set has
\* a data role (classification succeeded) and its pads have a routing code
\* (derivation succeeded), and then it carries a capability and both codes;
\* a failed finalize leaves an error and no Configuration, capability or
\* routing code; before finalize there is no result at all.
C13_AtomicFinalize ==
    /\ result.ok =>
        /\ result.done
        /\ DataRole
        /\ RxpoTxpoDefined(pads)
        /\ result.err = "none"
        /\ result.cap \in {CapRx, CapTx, CapDuplex}
        /\ result.rxpo \in 0..3
        /\ result.txpo \in 0..3
    /\ (result.done /\ ~result.ok) =>
        /\ NoConfiguration
        /\ result.err \in {NoDataRole, IllegalRoutingCombination}
        /\ last.out = result.err
    /\ ~result.done => result = NoResult

\* Classification would succeed (Tx only) but the derivation fails (Tx on slot 1).
C13_Witness ==
    /\ result.done
    /\ ~result.ok
    /\ pads.io_pads.shape = TxSimplex
    /\ PadNum(pads.io_pads.transmit) = Pad1
    /\ result.err = IllegalRoutingCombination

\* C14: in both builders io is accepted only from a pad set with neither Rx
\* nor Tx bound; an accepted io binds Rx and Tx to the one slot of its pin;
\* and from a pad set bound by io every later rx, tx and io is rejected and
\* leaves the pad set as it was.
C14_HalfDuplexIo ==
    [][/\ (which = THUMB /\ last'.op = "io" /\ last'.out = Ok) =>
            /\ RxPin = NoPin /\ TxPin = NoPin
            /\ pads'.io_pads.shape = HalfDuplex
            /\ IoRX(pads'.io_pads) = IoTX(pads'.io_pads)
            /\ IoRX(pads'.io_pads) \in Owned
            /\ PadNum(IoRX(pads'.io_pads)) \in PadNums
       /\ (which = PADS2 /\ last'.op = "io" /\ last'.out = Ok) =>
            /\ pads2.roles.rx = NoneT /\ pads2.roles.tx = NoneT
            /\ pads2'.roles.rx = pads2'.roles.tx
            /\ pads2'.roles.rx \in PadNums
            /\ pads2'.p[pads2'.roles.rx] \in Owned
       /\ (which = THUMB /\ pads.io_pads.shape = HalfDuplex
              /\ last'.op \in {"rx", "tx", "io"}) =>
            (last'.out # Ok /\ pads' = pads)
       /\ (which = PADS2 /\ pads2.roles.rx # NoneT /\ pads2.roles.rx = pads2.roles.tx
              /\ last'.op \in {"rx", "tx", "io"}) =>
            (last'.out # Ok /\ pads2' = pads2)
      ]_vars

\* An rx refused after io (and a flow-control bind in between or not).
C14_Witness ==
    /\ which = THUMB
    /\ pads.io_pads.shape = HalfDuplex
    /\ last.op = "rx"
    /\ last.out = RoleAlreadyBound

\* C15: in every builder state a bound RTS pin is on slot 2 and a bound CTS
\* pin is on slot 3, rts and cts having refused every other pin when it was
\* bound.
C15_FlowControlSlots ==
    /\ which = THUMB =>
        /\ pads.ready_to_send # NoPin => PadNum(pads.ready_to_send) = Pad2
        /\ pads.clear_to_send # NoPin => PadNum(pads.clear_to_send) = Pad3
    /\ which = PADS2 =>
        /\ pads2.roles.rts \in {NoneT, Pad2}
        /\ pads2.roles.cts \in {NoneT, Pad3}

\* C16: every pin a reachable builder holds is a pin the catalog maps to a pad
\* of the builder's SERCOM under the builder's IoSet, every bind of any other
\* pin having been refused.
C16_OnlyCatalogPins ==
    \A pin \in HeldPins(pads) \cup HeldPins2(pads2) :
        GetPadDefined(pin) /\ InIoSet(pin)

\* The pad slot of each role of the pads_thumbv7em.rs pad set, NoneT = unbound.
RoleSlots ==
    [r \in {"rx", "tx", "rts", "cts"} |->
        CASE r = "rx" -> PadNum(RxPin)
          [] r = "tx" -> PadNum(TxPin)
          [] r = "rts" -> PadNum(pads.ready_to_send)
          [] r = "cts" -> PadNum(pads.clear_to_send)]

\* C17: in every builder state no pad slot is claimed by two different roles,
\* except Rx and Tx sharing the slot of the half-duplex IO pin (each role
\* holding at most one pin, and a bind to a slot another role claims having
\* been refused).
C17_OneRolePerSlot ==
    /\ which = THUMB =>
        \A a \in DOMAIN RoleSlots, b \in DOMAIN RoleSlots :
            (a # b /\ RoleSlots[a] # NoneT /\ RoleSlots[a] = RoleSlots[b]) =>
                ({a, b} = {"rx", "tx"} /\ pads.io_pads.shape = HalfDuplex)
    /\ which = PADS2 =>
        \A a \in DOMAIN pads2.roles, b \in DOMAIN pads2.roles :
            (a # b /\ pads2.roles[a] # NoneT /\ pads2.roles[a] = pads2.roles[b]) =>
                {a, b} = {"rx", "tx"}

\* C18: every pad set that has RXPO and TXPO (RxpoTxpo is implemented for it)
\* has Rx or Tx on a concrete pad and no two of the roles Rx, Tx, RTS, CTS on
\* the same pad number, except Rx = Tx in half-duplex.
C18_RxpoTxpoNoConflict ==
    (which = THUMB /\ RxpoTxpoDefined(pads)) =>
        /\ DataRole
        /\ \A a \in DOMAIN RoleSlots, b \in DOMAIN RoleSlots :
            (a # b /\ RoleSlots[a] # NoneT /\ RoleSlots[a] = RoleSlots[b]) =>
                ({a, b} = {"rx", "tx"} /\ pads.io_pads.shape = HalfDuplex)

\* C20 (as stated): in every Configuration RXPO and TXPO are in 0..3 and the
\* TXPO is the one the section 4.4 table lists for the bound (TX, RTS, CTS)
\* slots.
C20_SpecTablePair ==
    result.ok =>
        /\ result.rxpo \in 0..3
        /\ result.txpo \in 0..3
        /\ Triple \in DOMAIN SpecTable
        /\ result.txpo = SpecTable[Triple]

\* C20 (amended): in every Configuration RXPO and TXPO are in 0..3, RXPO is
\* the receiving slot (0 without Rx) and TXPO is the code the Txpo
\* implementations give the bound (TX, RTS, CTS) pads: 0 without flow
\* control, 2 for RTS on pad 2 with CTS on pad 3, 3 for RTS on pad 2 alone,
\* TX on pad 0 or absent; every defined code of the pad-slot builder's
\* tables is in 0..3 as well.
C20_RoutingCodes ==
    /\ result.ok =>
        /\ result.rxpo \in 0..3
        /\ result.txpo \in 0..3
        /\ result.rxpo = RxSlotOrZero
        /\ Triple \in DOMAIN RowTable
        /\ result.txpo = RowTable[Triple]
    /\ (which = PADS2 /\ last.out = Ok) =>
        /\ Rxpo2(pads2.roles.rx) \in 0..3
        /\ Txpo2Defined(pads2.roles.tx, pads2.roles.clk, pads2.roles.rts, pads2.roles.cts) =>
             Txpo2(pads2.roles.tx, pads2.roles.clk, pads2.roles.rts, pads2.roles.cts) \in {0, 2, 3}

\* Rx on slot 1, Tx on slot 0, RTS on slot 2 alone: the codes (1, 3).
C20_Witness ==
    /\ result.ok
    /\ pads.io_pads.shape = FullDuplex
    /\ Triple = <<Pad0, Pad2, NoneT>>
    /\ result.rxpo = 1
    /\ result.txpo = 3

\* One more bind of a building sequence: skipped for an absent pin and after
\* a refused call.
BindIf(r, op, pin) ==
    IF pin = NoPin \/ r.out # Ok THEN r ELSE Apply(op, r.pads, pin)

\* Pads::default() with rx, tx, rts, cts bound in that order (absent pins skipped).
BuildRxTx(rx_pin, tx_pin, rts_pin, cts_pin) ==
    BindIf(BindIf(BindIf(BindIf(Accept(PadsDefault), "rx", rx_pin), "tx", tx_pin),
                  "rts", rts_pin), "cts", cts_pin)

\* The same with tx bound before rx.
BuildTxRx(rx_pin, tx_pin, rts_pin, cts_pin) ==
    BindIf(BindIf(BindIf(BindIf(Accept(PadsDefault), "tx", tx_pin), "rx", rx_pin),
                  "rts", rts_pin), "cts", cts_pin)

FreePins(p) ==
    LET f == free(p)
    IN ({f[1][i] : i \in 1..Len(f[1])} \cup {f[2], f[3]}) \ {NoPin}

\* C22: free returns exactly the pins that were bound: every accepted bind
\* adds its one pin to what free returns and loses none of the pins bound
\* before, and free lists them as (data pads, RTS, CTS) with the data pads
\* () for Empty, the Rx pin, the Tx pin, the IO pin, or (Rx pin, Tx pin) in
\* that order whichever of rx and tx was called first.
C22_FreeInvertsBuild ==
    [][(which = THUMB /\ last'.out = Ok /\ last'.op \in {"rx", "tx", "io", "rts", "cts"}) =>
          /\ FreePins(pads) \subseteq FreePins(pads')
          /\ Cardinality(FreePins(pads')) = Cardinality(FreePins(pads)) + 1
          /\ FreePins(pads') \ FreePins(pads) \subseteq Owned
          /\ free(pads')[1] =
                CASE pads'.io_pads.shape = Empty -> <<>>
                  [] pads'.io_pads.shape = HalfDuplex -> <<IoRX(pads'.io_pads)>>
                  [] pads'.io_pads.shape = RxSimplex -> <<IoRX(pads'.io_pads)>>
                  [] pads'.io_pads.shape = TxSimplex -> <<IoTX(pads'.io_pads)>>
                  [] OTHER -> <<IoRX(pads'.io_pads), IoTX(pads'.io_pads)>>
          /\ free(pads')[2] = pads'.ready_to_send
          /\ free(pads')[3] = pads'.clear_to_send
      ]_vars

\* C23: an accepted bind changes its own role and nothing else.  In
\* pads_thumbv7em.rs rx binds a new pin to Rx and keeps Tx, RTS and CTS, tx
\* binds Tx and keeps Rx, RTS and CTS, io binds Rx and Tx together and keeps
\* RTS and CTS, rts changes RTS and keeps the data pads and CTS, cts changes
\* CTS and keeps the data pads and RTS.  In pads2.rs the bind sets its role
\* (io: Rx and Tx) to the pin's slot, puts the pin into that physical slot,
\* and every other role, Clk included, and every other slot keeps its value.
\* The builder's SERCOM and IoSet never change.
C23_BindFrame ==
    [][/\ which' = which
       /\ (which = THUMB /\ last'.out = Ok /\ last'.op \in {"rx", "tx", "io", "rts", "cts"}) =>
            LET o == last'.op
            IN /\ o \in {"rx", "tx", "io"} =>
                    /\ pads'.ready_to_send = pads.ready_to_send
                    /\ pads'.clear_to_send = pads.clear_to_send
               /\ o \in {"rts", "cts"} => pads'.io_pads = pads.io_pads
               /\ o = "rts" =>
                    pads'.clear_to_send = pads.clear_to_send /\ pads'.ready_to_send \in Owned
               /\ o = "cts" =>
                    pads'.ready_to_send = pads.ready_to_send /\ pads'.clear_to_send \in Owned
               /\ o = "rx" =>
                    /\ RxPin = NoPin /\ IoRX(pads'.io_pads) \in Owned
                    /\ IoTX(pads'.io_pads) = TxPin
               /\ o = "tx" =>
                    /\ TxPin = NoPin /\ IoTX(pads'.io_pads) \in Owned
                    /\ IoRX(pads'.io_pads) = RxPin
               /\ o = "io" =>
                    /\ RxPin = NoPin /\ TxPin = NoPin
                    /\ IoRX(pads'.io_pads) \in Owned
                    /\ IoTX(pads'.io_pads) = IoRX(pads'.io_pads)
       /\ (which = PADS2 /\ last'.out = Ok /\ last'.op \in DOMAIN pads2.roles \cup {"io"}) =>
            LET o == last'.op
                set == IF o = "io" THEN {"rx", "tx"} ELSE {o}
            IN \E s \in PadNums :
                /\ pads2.p[s] = NoPin
                /\ pads2'.p[s] \in Owned
                /\ PadNum(pads2'.p[s]) = s
                /\ \A t \in PadNums \ {s} : pads2'.p[t] = pads2.p[t]
                /\ \A r \in set : pads2.roles[r] = NoneT /\ pads2'.roles[r] = s
                /\ \A r \in DOMAIN pads2.roles \ set : pads2'.roles[r] = pads2.roles[r]
      ]_vars

\* rts accepted on a full-duplex pad set that already holds CTS.
C23_Witness ==
    /\ which = THUMB
    /\ last = [op |-> "rts", out |-> Ok]
    /\ pads.io_pads.shape = FullDuplex
    /\ pads.clear_to_send # NoPin
    /\ pads.ready_to_send # NoPin

\* The number of data roles a shape has bound.
ShapeRank(shape) ==
    CASE shape = Empty -> 0
      [] shape \in {RxSimplex, TxSimplex} -> 1
      [] OTHER -> 2

\* C24: the data-pad shape moves only Empty -> RxSimplex (rx), Empty ->
\* TxSimplex (tx), Empty -> HalfDuplex (io), RxSimplex -> FullDuplex (tx) and
\* TxSimplex -> FullDuplex (rx); HalfDuplex and FullDuplex accept no rx, tx
\* or io; rts, cts, finalize and refused calls keep the shape; every accepted
\* data bind binds a data role more and none is unbound, so no sequence has
\* more than two accepted data binds.
C24_ShapeMoves ==
    [][which = THUMB =>
        LET s == pads.io_pads.shape
            t == pads'.io_pads.shape
            o == last'.op
            accepted == last'.out = Ok
        IN /\ (accepted /\ o = "rx") =>
                <<s, t>> \in {<<Empty, RxSimplex>>, <<TxSimplex, FullDuplex>>}
           /\ (accepted /\ o = "tx") =>
                <<s, t>> \in {<<Empty, TxSimplex>>, <<RxSimplex, FullDuplex>>}
           /\ (accepted /\ o = "io") => <<s, t>> = <<Empty, HalfDuplex>>
           /\ (o \in {"rts", "cts", "finalize"} \/ ~accepted) => t = s
           /\ (s \in {HalfDuplex, FullDuplex} /\ o \in {"rx", "tx", "io"}) => ~accepted
           /\ (accepted /\ o \in {"rx", "tx", "io"}) =>
                /\ ShapeRank(t) > ShapeRank(s)
                /\ ShapeRank(t) <= 2
                /\ RxPin # NoPin => IoRX(pads'.io_pads) = RxPin
                /\ TxPin # NoPin => IoTX(pads'.io_pads) = TxPin
      ]_vars

\* A third data bind, refused on the full-duplex shape.
C24_Witness ==
    /\ which = THUMB
    /\ pads.io_pads.shape = FullDuplex
    /\ last.op = "tx"
    /\ last.out = RoleAlreadyBound

TxTwin(p) ==
    [io_pads |-> IoTxSimplex(p.io_pads.io), ready_to_send |-> p.ready_to_send,
     clear_to_send |-> p.clear_to_send]

\* C26: a pad set with the half-duplex IO pin on slot N finalizes exactly when
\* the pad set with Tx on that pin and the same RTS and CTS has a TXPO, and
\* then it has that TXPO, RXPO = N and the duplex capability.
C26_HalfDuplexAsTx ==
    (result.done /\ pads.io_pads.shape = HalfDuplex) =>
        /\ result.ok <=> RxpoTxpoDefined(TxTwin(pads))
        /\ result.ok =>
            /\ result.txpo = TXPO(TxTwin(pads))
            /\ result.txpo = RowTable[Triple]
            /\ result.rxpo = PadNum(pads.io_pads.io)
            /\ result.cap = CapDuplex

\* IO on slot 0 with RTS and CTS: a Configuration with TXPO 2.
C26_Witness ==
    /\ result.ok
    /\ pads.io_pads.shape = HalfDuplex
    /\ pads.ready_to_send # NoPin
    /\ pads.clear_to_send # NoPin
    /\ result.txpo = 2
    /\ result.cap = CapDuplex

\* C27: in every Configuration the transmitting pad (Tx of a transmit-only or
\* full-duplex pad set, the IO pad of a half-duplex one) is on slot 0 and the
\* Rx pad of a full-duplex pad set is on slot 1, 2 or 3; a receive-only pad
\* set finalizes with Rx on each of the slots 0..3.
C27_TransmitOnSlot0 ==
    /\ result.ok =>
        /\ TxPin # NoPin => PadNum(TxPin) = Pad0
        /\ pads.io_pads.shape \in {TxSimplex, FullDuplex} =>
                PadNum(pads.io_pads.transmit) = Pad0
        /\ pads.io_pads.shape = HalfDuplex => PadNum(pads.io_pads.io) = Pad0
        /\ pads.io_pads.shape = FullDuplex =>
                PadNum(pads.io_pads.receive) \in {Pad1, Pad2, Pad3}
    /\ \A s \in PadNums :
        \E pin \in Pins :
            /\ PadNum(pin) = s
            /\ Rx(PadsDefault, pin).out = Ok
            /\ Finalize(Rx(PadsDefault, pin).pads).ok

\* A receive-only Configuration with Rx on slot 0.
C27_Witness ==
    /\ result.ok
    /\ pads.io_pads.shape = RxSimplex
    /\ PadNum(pads.io_pads.receive) = Pad0

\* A pad set with the given data pads and an RTS and a CTS pin, as the binds
\* build it.
WithFlowControl(data, rts_pin, cts_pin) ==
    Cts(Rts(update_io(PadsDefault, data), rts_pin).pads, cts_pin).pads

\* C28: no receive-only Configuration has CTS bound and no transmit-only
\* Configuration has RTS bound, while full-duplex and half-duplex pad sets
\* with RTS on pad 2 and CTS on pad 3 do finalize.
C28_FlowControlDirection ==
    /\ (result.ok /\ result.cap = CapRx) => pads.clear_to_send = NoPin
    /\ (result.ok /\ result.cap = CapTx) => pads.ready_to_send = NoPin
    /\ (result.ok /\ (pads.ready_to_send # NoPin \/ pads.clear_to_send # NoPin)) =>
            /\ PadNum(pads.ready_to_send) \in {NoneT, Pad2}
            /\ PadNum(pads.clear_to_send) \in {NoneT, Pad3}
    /\ last.op = "default" =>
      \E rx_pin \in Pins, tx_pin \in Pins, rts_pin \in Pins, cts_pin \in Pins :
        /\ PinBounds(rx_pin) /\ PinBounds(tx_pin) /\ PinBounds(rts_pin) /\ PinBounds(cts_pin)
        /\ Cardinality({rx_pin, tx_pin, rts_pin, cts_pin}) = 4
        /\ Finalize(WithFlowControl(IoFullDuplex(rx_pin, tx_pin), rts_pin, cts_pin)).cap = CapDuplex
        /\ Finalize(WithFlowControl(IoHalfDuplex(tx_pin), rts_pin, cts_pin)).cap = CapDuplex

\* A receive-only Configuration that carries RTS.
C28_Witness ==
    /\ result.ok
    /\ result.cap = CapRx
    /\ pads.ready_to_send # NoPin
    /\ pads.clear_to_send = NoPin

\* NoneT and the four pad numbers.
OptionalPadNums == PadNums \cup {NoneT}

\* C29: wherever the Txpo of pads_thumbv7em.rs and the Txpo of pads2.rs with
\* Clk unbound both give a (Tx, Rts, Cts) pad triple a TXPO, they give the
\* same one; and every entry of either table has Tx on Pad0 or unbound, Rts
\* on Pad2 or unbound and Cts on Pad3 or unbound.  Stated for every triple,
\* and for the roles of every reachable builder state.
C29_TablesAgree ==
    /\ last.op = "default" =>
        \A tx_pad \in OptionalPadNums, rts_pad \in OptionalPadNums, cts_pad \in OptionalPadNums :
            /\ (TxpoDefined(tx_pad, rts_pad, cts_pad)
                  /\ Txpo2Defined(tx_pad, NoneT, rts_pad, cts_pad)) =>
                    Txpo(tx_pad, rts_pad, cts_pad) = Txpo2(tx_pad, NoneT, rts_pad, cts_pad)
            /\ (TxpoDefined(tx_pad, rts_pad, cts_pad)
                  \/ \E clk_pad \in OptionalPadNums : Txpo2Defined(tx_pad, clk_pad, rts_pad, cts_pad)) =>
                    /\ tx_pad \in {NoneT, Pad0}
                    /\ rts_pad \in {NoneT, Pad2}
                    /\ cts_pad \in {NoneT, Pad3}
    /\ (which = PADS2 /\ pads2.roles.clk = NoneT
          /\ Txpo2Defined(pads2.roles.tx, NoneT, pads2.roles.rts, pads2.roles.cts)
          /\ TxpoDefined(pads2.roles.tx, pads2.roles.rts, pads2.roles.cts)) =>
        Txpo2(pads2.roles.tx, NoneT, pads2.roles.rts, pads2.roles.cts)
            = Txpo(pads2.roles.tx, pads2.roles.rts, pads2.roles.cts)
    /\ (result.ok /\ Txpo2Defined(Triple[1], NoneT, Triple[2], Triple[3])) =>
        result.txpo = Txpo2(Triple[1], NoneT, Triple[2], Triple[3])

\* The pad-slot builder with Tx on pad 0 and RTS on pad 2, no CTS, no Clk:
\* both tables say 3.
C29_Witness ==
    /\ which = PADS2
    /\ last.out = Ok
    /\ pads2.roles.tx = Pad0
    /\ pads2.roles.clk = NoneT
    /\ pads2.roles.rts = Pad2
    /\ pads2.roles.cts = NoneT
    /\ Txpo2(Pad0, NoneT, Pad2, NoneT) = 3
    /\ Txpo(Pad0, Pad2, NoneT) = 3

\* The physical slots of the pads2.rs pad set that hold a pin.
Occupied(q) == {s \in PadNums : q.p[s] # NoPin}

\* The physical slots and the roles of a pads2.rs pad set agree.
SlotsMatchRoles(q) ==
    /\ \A s \in PadNums : s \in Occupied(q) <=> \E r \in DOMAIN q.roles : q.roles[r] = s
    /\ \A s \in Occupied(q) : GetPadDefined(q.p[s]) /\ PadNum(q.p[s]) = s
    /\ \A r \in DOMAIN q.roles : q.roles[r] \in PadNums \cup {NoneT}

\* C30: in the pad-slot builder a physical slot holds a pin exactly when some
\* role (Rx, Tx, Clk, Rts, Cts) records that slot, every pin is in the slot
\* of its own pad number, and every accepted bind, io as one bind, occupies
\* one slot more, starting from no slot at Pads::default().
C30_SlotsAndRoles ==
    /\ (last.op = "default" => Occupied(pads2) = {})
    /\ SlotsMatchRoles(pads2)
    /\ [][/\ SlotsMatchRoles(pads2')
          /\ (which = PADS2 /\ last'.out = Ok) =>
                Cardinality(Occupied(pads2')) = Cardinality(Occupied(pads2)) + 1
          /\ (which = PADS2 /\ last'.out # Ok) => Occupied(pads2') = Occupied(pads2)
         ]_vars

\* io, clk and rts accepted: three binds, three slots, four roles.
C30_Witness ==
    /\ which = PADS2
    /\ last.out = Ok
    /\ pads2.roles.rx # NoneT
    /\ pads2.roles.rx = pads2.roles.tx
    /\ pads2.roles.clk # NoneT
    /\ pads2.roles.rts # NoneT
    /\ pads2.roles.cts = NoneT
    /\ Cardinality(Occupied(pads2)) = 3

====
